---- MODULE Spec2Model ----
(***************************************************************************)
(* Four hash sets over one separate-chaining layout: Sequential,           *)
(* Coarse-Grained, Striped and Refinable (two drafts of the latter: the    *)
(* one whose Resize holds every old bucket lock, "refall", and the one     *)
(* whose Resize migrates one bucket at a time, "refone").                  *)
(*                                                                         *)
(* Every thread is a small program counter machine; one action is one      *)
(* shared-memory access (or a run of accesses no other thread can tell     *)
(* apart from a single one, as noted at the action).  Elements are         *)
(* integers and std::hash<int> is the identity.                            *)
(***************************************************************************)
EXTENDS Integers, Sequences, FiniteSets, TLC

\* ---------------------------------------------------------------- constants
kMinBuckets == 4
kMaxLoadFactor == 4
kMinLoadFactor == 1
DefaultStripes == 64

\* ------------------------------------------------------------------- bounds
NThreads == 2        \* threads of a concurrent run
MaxOps == 2          \* calls on the hot keys issued in a concurrent run
MaxKey == 18         \* keys 1..MaxKey are inserted in increasing order

Threads == 1..NThreads
HotKeys == {5, 6}
Variants == {"seq", "coarse", "striped", "refall", "refone"}

Max(a, b) == IF a > b THEN a ELSE b

\* std::hash<int>
Hash(v) == v

NormalizeCapacity(c) == IF c = 0 THEN kMinBuckets ELSE c

\* buckets_ as built by the constructors
InitialBuckets(c) ==
  [k \in 1..Max(NormalizeCapacity(c), kMinBuckets) |-> <<>>]

\* locks_(stripes ? stripes : 64)
StripeCount(s) == IF s # 0 THEN s ELSE DefaultStripes

\* std::find(b.begin(), b.end(), elem) != b.end()
Found(b, v) == \E k \in 1..Len(b) : b[k] = v

\* b.erase(std::find(...)): drops the first occurrence
RECURSIVE Erase(_, _)
Erase(b, v) ==
  IF b = <<>> THEN <<>>
  ELSE IF Head(b) = v THEN Tail(b)
  ELSE <<Head(b)>> \o Erase(Tail(b), v)

\* for (auto& v : bucket) new_buckets[hasher_(v) % new_capacity].push_back(v)
RECURSIVE MoveBucket(_, _, _)
MoveBucket(nb, b, ncap) ==
  IF b = <<>> THEN nb
  ELSE MoveBucket([nb EXCEPT ![(Hash(Head(b)) % ncap) + 1] = Append(@, Head(b))],
                  Tail(b), ncap)

RECURSIVE MoveAll(_, _, _)
MoveAll(nb, bs, ncap) ==
  IF bs = <<>> THEN nb
  ELSE MoveAll(MoveBucket(nb, Head(bs), ncap), Tail(bs), ncap)

\* the rehash loop of Resize over a fresh new_buckets(new_capacity)
Rehash(bs, ncap) == MoveAll([k \in 1..ncap |-> <<>>], bs, ncap)

RECURSIVE Count(_)
Count(bs) == IF bs = <<>> THEN 0 ELSE Len(Head(bs)) + Count(Tail(bs))

Elems(bs) == UNION {{bs[k][j] : j \in 1..Len(bs[k])} : k \in 1..Len(bs)}

\* load-factor tests on doubles, exact on these magnitudes
GrowNeeded(sz, cap) == sz > kMaxLoadFactor * cap
ShrinkNeeded(sz, cap) == sz < kMinLoadFactor * cap

\* One single-threaded Add of a key that is absent: push_back, ++size_,
\* Resize(2B) when the load factor exceeds kMaxLoadFactor.
AddAlone(bs, v) ==
  LET i == Hash(v) % Len(bs)
      b1 == [bs EXCEPT ![i + 1] = Append(@, v)]
  IN IF GrowNeeded(Count(b1), Len(b1)) THEN Rehash(b1, 2 * Len(b1)) ELSE b1

\* The table after a single thread has added the keys 1..n to a new set.
RECURSIVE Prefilled(_, _)
Prefilled(c, n) ==
  IF n = 0 THEN InitialBuckets(c) ELSE AddAlone(Prefilled(c, n - 1), n)


\* ------------------------------------------------------------------- state
VARIABLES
  variant,          \* which class is under test
  nthr,             \* number of threads calling the set
  stripes,          \* the stripes argument of the Striped constructor
  buckets_,         \* std::vector<std::vector<T>>, bucket i is buckets_[i + 1]
  size_,            \* element counter
  lockArrs,         \* every std::vector<std::mutex> allocated so far; an entry
                    \* is the holder of that mutex, 0 when it is free
  alive,            \* alive[g]: lock array g has not been destroyed
  locks_,           \* the lock array the member locks_ denotes (index in lockArrs)
  version_,
  resizing_,
  owner_tid_hash_,
  resize_mutex_,    \* holder of resize_mutex_, 0 when free
  new_buckets,      \* the local new_buckets of the thread inside Resize
  th,               \* per thread: program counter and locals
  nextKey,          \* next key of the increasing insert sequence
  nops,             \* hot-key calls issued so far in a concurrent run
  ub,               \* first undefined step taken: "none", "modzero", "oob", "dangling"
  net,              \* (Adds that returned true) - (Removes that returned true)
  lin,              \* abstract-set configurations consistent with the responses so far
  added             \* keys whose Add returned true with no Remove called since

vars == <<variant, nthr, stripes, buckets_, size_, lockArrs, alive, locks_, version_,
          resizing_, owner_tid_hash_, resize_mutex_, new_buckets, th, nextKey,
          nops, ub, net, lin, added>>

B == Len(buckets_)

Idle ==
  [pc |-> "idle", op |-> "none", elem |-> 0, ver_before |-> 0, cap |-> 0,
   i |-> 0, lk |-> <<0, 0>>, sz |-> 0, used_cap |-> 0, new_capacity |-> 0,
   ri |-> 0, new_locks |-> 0, ret |-> FALSE, must |-> FALSE]

Refinable == variant \in {"refall", "refone"}

\* A resize by another thread is announced (IsResizingByOther in the
\* one-at-a-time draft, the plain resizing_ flag in the all-locks draft).
IsResizingByOther(t) ==
  IF variant = "refone" THEN resizing_ /\ owner_tid_hash_ # t ELSE resizing_

Holder(g, k) == lockArrs[g][k + 1]
FreeLocks(n) == [k \in 1..n |-> 0]

\* ------------------------------------------------- abstract set (the oracle)
Enc(o, r) == IF o = "Size" THEN r ELSE IF r THEN 1 ELSE 0

AbsRet(s, o, v) ==
  CASE o = "Add" -> Enc(o, v \notin s)
    [] o = "Remove" -> Enc(o, v \in s)
    [] o = "Contains" -> Enc(o, v \in s)
    [] OTHER -> Cardinality(s)

AbsSet(s, o, v) ==
  CASE o = "Add" -> s \cup {v}
    [] o = "Remove" -> s \ {v}
    [] OTHER -> s

\* st[t]: -2 no call, -1 call pending, r >= 0 call took effect with result r
LinStep(C, po) ==
  C \cup {[s |-> AbsSet(c.s, po[t].op, po[t].elem),
           st |-> [c.st EXCEPT ![t] = AbsRet(c.s, po[t].op, po[t].elem)]] :
          <<c, t>> \in {x \in C \X Threads : x[1].st[x[2]] = -1}}

RECURSIVE Close(_, _, _)
Close(C, po, n) == IF n = 0 THEN C ELSE Close(LinStep(C, po), po, n - 1)

LinInvoke(C, t, o, v) ==
  LET po == [u \in Threads |->
               IF u = t THEN [op |-> o, elem |-> v]
               ELSE [op |-> th[u].op, elem |-> th[u].elem]]
  IN Close({[c EXCEPT !.st[t] = -1] : c \in C}, po, NThreads)

LinReturn(C, t, r) ==
  {[c EXCEPT !.st[t] = -2] : c \in {x \in C : x.st[t] = r}}

\* the oracle is followed in single-threaded runs and for the Striped set
Tracked == nthr = 1 \/ variant = "striped"

\* -------------------------------------------------------------------- Init
\* number of resizes the prefill performed
RECURSIVE PrefilledVersion(_, _)
PrefilledVersion(c, n) ==
  IF n = 0 THEN 0
  ELSE PrefilledVersion(c, n - 1) +
       (IF Len(Prefilled(c, n)) # Len(Prefilled(c, n - 1)) THEN 1 ELSE 0)

InitOf(vs, caps, fills, ns, ss) ==
  /\ variant \in vs
  /\ nthr \in ns
  /\ variant = "seq" => nthr = 1
  /\ \E c \in caps, n \in fills, s \in ss :
       /\ stripes = s
       /\ buckets_ = Prefilled(c, n)
       /\ size_ = n
       /\ nextKey = n + 1
       /\ net = n
       /\ added = 1..n
       /\ lin = {[s |-> 1..n, st |-> [t \in Threads |-> -2]]}
       /\ version_ = IF Refinable THEN PrefilledVersion(c, n) ELSE 0
       /\ lockArrs = CASE variant = "seq" -> <<>>
                       [] variant = "coarse" -> <<FreeLocks(1)>>
                       [] variant = "striped" -> <<FreeLocks(StripeCount(s))>>
                       [] OTHER -> <<FreeLocks(Len(Prefilled(c, n)))>>
  /\ alive = [g \in 1..Len(lockArrs) |-> TRUE]
  /\ locks_ = Len(lockArrs)
  /\ resizing_ = FALSE
  /\ owner_tid_hash_ = 0
  /\ resize_mutex_ = 0
  /\ new_buckets = <<>>
  /\ th = [t \in Threads |-> Idle]
  /\ nops = 0
  /\ ub = "none"

\* ------------------------------------------------------------ call / return
FirstPc(o) ==
  CASE variant = "seq" -> "q_body"
    [] variant = "coarse" -> "c_lock"
    [] o = "Size" -> "z_size"
    [] variant = "striped" -> "s_cap"
    [] OTHER -> "f_wait"

Call(t, o, v) ==
  /\ th[t].pc = "idle"
  /\ t <= nthr
  /\ th' = [u \in Threads |->
              IF u = t
              THEN [Idle EXCEPT !.pc = FirstPc(o), !.op = o, !.elem = v,
                                !.must = (o = "Contains" /\ v \in added)]
              ELSE IF o = "Remove" /\ th[u].op = "Contains" /\ th[u].elem = v
              THEN [th[u] EXCEPT !.must = FALSE]
              ELSE th[u]]
  /\ added' = IF o = "Remove" THEN added \ {v} ELSE added
  /\ lin' = IF Tracked THEN LinInvoke(lin, t, o, v) ELSE lin

\* a call on one of the hot keys, or Size()
InvokeHot(t) ==
  /\ nthr = 1 \/ nops < MaxOps
  /\ \/ \E o \in {"Add", "Remove", "Contains"}, v \in HotKeys : Call(t, o, v)
     \/ Call(t, "Size", 0)
  /\ nops' = IF nthr = 1 THEN nops ELSE nops + 1
  /\ UNCHANGED <<variant, nthr, stripes, buckets_, size_, lockArrs, alive, locks_, version_,
                 resizing_, owner_tid_hash_, resize_mutex_, new_buckets, nextKey,
                 ub, net>>

\* Add of the next key of the increasing sequence, all by the last thread
InvokeNext(t) ==
  /\ t = nthr
  /\ nextKey <= MaxKey
  /\ Call(t, "Add", nextKey)
  /\ nextKey' = nextKey + 1
  /\ UNCHANGED <<variant, nthr, stripes, buckets_, size_, lockArrs, alive, locks_, version_,
                 resizing_, owner_tid_hash_, resize_mutex_, new_buckets, nops,
                 ub, net>>

RemoveInFlight(t, v) ==
  \E u \in Threads \ {t} : th[u].op = "Remove" /\ th[u].elem = v

Return(t) ==
  /\ th[t].pc = "done"
  /\ th' = [th EXCEPT ![t] = Idle]
  /\ net' = net + (IF th[t].op = "Add" /\ th[t].ret THEN 1
                   ELSE IF th[t].op = "Remove" /\ th[t].ret THEN -1 ELSE 0)
  /\ added' = IF th[t].op = "Add" /\ th[t].ret /\ ~RemoveInFlight(t, th[t].elem)
              THEN added \cup {th[t].elem} ELSE added
  /\ lin' = IF Tracked THEN LinReturn(lin, t, Enc(th[t].op, th[t].ret)) ELSE lin
  /\ UNCHANGED <<variant, nthr, stripes, buckets_, size_, lockArrs, alive, locks_, version_,
                 resizing_, owner_tid_hash_, resize_mutex_, new_buckets, nextKey,
                 nops, ub>>

\* ------------------------------------------------------ shared step pieces
SetUb(k) == ub' = IF ub = "none" THEN k ELSE ub

Lock(g, k, t) == lockArrs' = [lockArrs EXCEPT ![g][k + 1] = t]
\* Unlock that leaves the mutex locked (a bucket_lk released too late)
UnlockLate(g, k) == lockArrs' = lockArrs
Unlock(g, k) == lockArrs' = [lockArrs EXCEPT ![g][k + 1] = 0]

\* frame of a step that touches only the thread's locals
Local == UNCHANGED <<variant, nthr, stripes, buckets_, size_, lockArrs, alive, locks_,
                     version_, resizing_, owner_tid_hash_, resize_mutex_,
                     new_buckets, nextKey, nops, ub, net, lin, added>>

Ghosts == UNCHANGED <<variant, nthr, stripes, nextKey, nops, net, lin, added>>

\* BucketWork whose Remove of an absent element still counts size_ down
BucketWorkCountsFailedRemove(bs, i, o, v) ==
  LET b == bs[i + 1] IN
  CASE o = "Add" ->
         IF Found(b, v) THEN [b |-> bs, d |-> 0, r |-> FALSE]
         ELSE [b |-> [bs EXCEPT ![i + 1] = Append(@, v)], d |-> 1, r |-> TRUE]
    [] o = "Remove" ->
         IF Found(b, v)
         THEN [b |-> [bs EXCEPT ![i + 1] = Erase(@, v)], d |-> -1, r |-> TRUE]
         ELSE [b |-> bs, d |-> -1, r |-> FALSE]
    [] OTHER -> [b |-> bs, d |-> 0, r |-> Found(b, v)]

\* BucketWork whose Contains of an absent element inserts it (operator[]-like)
BucketWorkContainsInserts(bs, i, o, v) ==
  LET b == bs[i + 1] IN
  CASE o = "Add" ->
         IF Found(b, v) THEN [b |-> bs, d |-> 0, r |-> FALSE]
         ELSE [b |-> [bs EXCEPT ![i + 1] = Append(@, v)], d |-> 1, r |-> TRUE]
    [] o = "Remove" ->
         IF Found(b, v)
         THEN [b |-> [bs EXCEPT ![i + 1] = Erase(@, v)], d |-> -1, r |-> TRUE]
         ELSE [b |-> bs, d |-> 0, r |-> FALSE]
    [] OTHER ->
         IF Found(b, v) THEN [b |-> bs, d |-> 0, r |-> TRUE]
         ELSE [b |-> [bs EXCEPT ![i + 1] = Append(@, v)], d |-> 0, r |-> FALSE]

\* BucketWork whose Add of a present element still counts size_ up
BucketWorkCountsFailedAdd(bs, i, o, v) ==
  LET b == bs[i + 1] IN
  CASE o = "Add" ->
         IF Found(b, v) THEN [b |-> bs, d |-> 1, r |-> FALSE]
         ELSE [b |-> [bs EXCEPT ![i + 1] = Append(@, v)], d |-> 1, r |-> TRUE]
    [] o = "Remove" ->
         IF Found(b, v)
         THEN [b |-> [bs EXCEPT ![i + 1] = Erase(@, v)], d |-> -1, r |-> TRUE]
         ELSE [b |-> bs, d |-> 0, r |-> FALSE]
    [] OTHER -> [b |-> bs, d |-> 0, r |-> Found(b, v)]

\* The bucket work of one call on bucket i of bs:
\* [b: the buckets afterwards, d: change of size_, r: the value returned]
BucketWork(bs, i, o, v) ==
  LET b == bs[i + 1] IN
  CASE o = "Add" ->
         IF Found(b, v) THEN [b |-> bs, d |-> 0, r |-> FALSE]
         ELSE [b |-> [bs EXCEPT ![i + 1] = Append(@, v)], d |-> 1, r |-> TRUE]
    [] o = "Remove" ->
         IF Found(b, v)
         THEN [b |-> [bs EXCEPT ![i + 1] = Erase(@, v)], d |-> -1, r |-> TRUE]
         ELSE [b |-> bs, d |-> 0, r |-> FALSE]
    [] OTHER -> [b |-> bs, d |-> 0, r |-> Found(b, v)]

\* ------------------------------------------------ Sequential, Coarse-Grained
\* Resize of these two classes: no normalisation of new_capacity
PlainResize(bs, ncap) == Rehash(bs, ncap)

\* HashSetSequential: Add grows, Remove never shrinks
SeqAfter(bs, sz, o, r) ==
  IF o = "Add" /\ r /\ GrowNeeded(sz, Len(bs)) THEN PlainResize(bs, Len(bs) * 2)
  ELSE bs

\* HashSetCoarseGrained: Add grows, Remove shrinks to buckets_.size() / 2
CoarseAfter(bs, sz, o, r) ==
  IF o = "Add" /\ r /\ GrowNeeded(sz, Len(bs)) THEN PlainResize(bs, Len(bs) * 2)
  ELSE IF o = "Remove" /\ r /\ ShrinkNeeded(sz, Len(bs))
  THEN PlainResize(bs, Len(bs) \div 2)
  ELSE bs

\* a whole call of a class that runs it without interleaving
WholeCall(t, held) ==
  IF th[t].op = "Size"
  THEN /\ th' = [th EXCEPT ![t].pc = "done", ![t].ret = size_]
       /\ UNCHANGED <<buckets_, size_, ub>>
  ELSE IF B = 0
  THEN \* Index: hasher_(elem) % buckets_.size() with no bucket
       /\ th' = [th EXCEPT ![t].pc = "undef"]
       /\ SetUb("modzero")
       /\ UNCHANGED <<buckets_, size_>>
  ELSE LET w == BucketWork(buckets_, Hash(th[t].elem) % B, th[t].op, th[t].elem)
           sz == size_ + w.d
       IN /\ size_' = sz
          /\ buckets_' = IF held THEN CoarseAfter(w.b, sz, th[t].op, w.r)
                         ELSE SeqAfter(w.b, sz, th[t].op, w.r)
          /\ th' = [th EXCEPT ![t].pc = "done", ![t].ret = w.r]
          /\ UNCHANGED ub

Seq_Call(t) ==
  /\ variant = "seq"
  /\ th[t].pc = "q_body"
  /\ WholeCall(t, FALSE)
  /\ UNCHANGED <<lockArrs, alive, locks_, version_, resizing_, owner_tid_hash_,
                 resize_mutex_, new_buckets>>
  /\ Ghosts

\* std::scoped_lock lock(mutex_)
Cg_Lock(t) ==
  /\ variant = "coarse"
  /\ th[t].pc = "c_lock"
  /\ Holder(1, 0) = 0
  /\ Lock(1, 0, t)
  /\ th' = [th EXCEPT ![t].pc = "c_body", ![t].lk = <<1, 0>>]
  /\ UNCHANGED <<buckets_, size_, alive, locks_, version_, resizing_,
                 owner_tid_hash_, resize_mutex_, new_buckets, ub>>
  /\ Ghosts

\* the body under mutex_, and the unlock at scope exit (none after a crash)
Cg_Call(t) ==
  /\ variant = "coarse"
  /\ th[t].pc = "c_body"
  /\ WholeCall(t, TRUE)
  /\ IF th[t].op # "Size" /\ B = 0 THEN UNCHANGED lockArrs ELSE Unlock(1, 0)
  /\ UNCHANGED <<alive, locks_, version_, resizing_, owner_tid_hash_,
                 resize_mutex_, new_buckets>>
  /\ Ghosts

\* Size() of the Striped and Refinable classes: one load of size_
Size_Load(t) ==
  /\ th[t].pc = "z_size"
  /\ th' = [th EXCEPT ![t].pc = "done", ![t].ret = size_]
  /\ Local

\* ----------------------------------------------------------------- Striped
S == Len(lockArrs[1])
StripeOfBucket(b) == b % S

\* size_t cap = buckets_.size();
St_Cap(t) ==
  /\ variant = "striped"
  /\ th[t].pc = "s_cap"
  /\ th' = [th EXCEPT ![t].pc = "s_idx", ![t].cap = B]
  /\ Local

\* size_t i = Index(elem): a second read of buckets_.size()
St_Index(t) ==
  /\ variant = "striped"
  /\ th[t].pc = "s_idx"
  /\ th' = [th EXCEPT ![t].pc = "s_lock", ![t].i = Hash(th[t].elem) % B]
  /\ Local

\* std::unique_lock<std::mutex> lk(locks_[stripe]);
St_Lock(t) ==
  /\ variant = "striped"
  /\ th[t].pc = "s_lock"
  /\ LET s == StripeOfBucket(th[t].i) IN
       /\ Holder(1, s) = 0
       /\ Lock(1, s, t)
       /\ th' = [th EXCEPT ![t].pc = "s_chk", ![t].lk = <<1, s>>]
  /\ UNCHANGED <<buckets_, size_, alive, locks_, version_, resizing_,
                 owner_tid_hash_, resize_mutex_, new_buckets, ub>>
  /\ Ghosts

\* if (cap != buckets_.size()) continue;
St_Check(t) ==
  /\ variant = "striped"
  /\ th[t].pc = "s_chk"
  /\ IF th[t].cap # B
     THEN /\ Unlock(1, th[t].lk[2])
          /\ th' = [th EXCEPT ![t].pc = "s_cap", ![t].lk = <<0, 0>>]
     ELSE /\ th' = [th EXCEPT ![t].pc = "s_cs"]
          /\ UNCHANGED lockArrs
  /\ UNCHANGED <<buckets_, size_, alive, locks_, version_, resizing_,
                 owner_tid_hash_, resize_mutex_, new_buckets, ub>>
  /\ Ghosts

\* the work on buckets_[i] and the release of lk at break / return
St_Bucket(t) ==
  /\ variant = "striped"
  /\ th[t].pc = "s_cs"
  /\ IF th[t].i >= B
     THEN /\ th' = [th EXCEPT ![t].pc = "undef"]
          /\ SetUb("oob")
          /\ UNCHANGED <<buckets_, size_, lockArrs>>
     ELSE LET w == BucketWork(buckets_, th[t].i, th[t].op, th[t].elem) IN
          /\ buckets_' = w.b
          /\ size_' = size_ + w.d
          /\ Unlock(1, th[t].lk[2])
          /\ th' = [th EXCEPT ![t].pc = IF w.d = 0 THEN "done" ELSE "s_lf1",
                              ![t].ret = w.r, ![t].lk = <<0, 0>>]
          /\ UNCHANGED ub
  /\ UNCHANGED <<alive, locks_, version_, resizing_, owner_tid_hash_,
                 resize_mutex_, new_buckets>>
  /\ Ghosts

\* LoadFactor(): size_.load(...)
St_LfSize(t) ==
  /\ variant = "striped"
  /\ th[t].pc = "s_lf1"
  /\ th' = [th EXCEPT ![t].pc = "s_lf2", ![t].sz = size_]
  /\ Local

\* LoadFactor(): ... / buckets_.size(), and the comparison
St_LfCap(t) ==
  /\ variant = "striped"
  /\ th[t].pc = "s_lf2"
  /\ th' = [th EXCEPT ![t].pc =
              IF th[t].op = "Add"
              THEN (IF GrowNeeded(th[t].sz, B) THEN "s_arg" ELSE "done")
              ELSE (IF th[t].sz < B THEN "s_min" ELSE "done")]
  /\ Local

\* Remove: && buckets_.size() > kMinBuckets
St_Min(t) ==
  /\ variant = "striped"
  /\ th[t].pc = "s_min"
  /\ th' = [th EXCEPT ![t].pc = IF B > kMinBuckets THEN "s_arg" ELSE "done"]
  /\ Local

\* the argument of Resize: buckets_.size() * 2, buckets_.size() / 2
St_Arg(t) ==
  /\ variant = "striped"
  /\ th[t].pc = "s_arg"
  /\ th' = [th EXCEPT ![t].pc = "r_lock",
                      ![t].new_capacity = IF th[t].op = "Add" THEN B * 2
                                          ELSE B \div 2]
  /\ Local

\* Rs_Lock that does not wait for resize_mutex_ (a Resize without the lock)
Rs_LockNoMutex(t) ==
  /\ variant \in {"striped", "refall", "refone"}
  /\ th[t].pc = "r_lock"
  /\ resize_mutex_' = t
  /\ th' = [th EXCEPT ![t].pc = "r_chk"]
  /\ UNCHANGED <<buckets_, size_, lockArrs, alive, locks_, version_, resizing_,
                 owner_tid_hash_, new_buckets, ub>>
  /\ Ghosts

\* std::unique_lock<std::mutex> resize_lock(resize_mutex_);
Rs_Lock(t) ==
  /\ variant \in {"striped", "refall", "refone"}
  /\ th[t].pc = "r_lock"
  /\ resize_mutex_ = 0
  /\ resize_mutex_' = t
  /\ th' = [th EXCEPT ![t].pc = "r_chk"]
  /\ UNCHANGED <<buckets_, size_, lockArrs, alive, locks_, version_, resizing_,
                 owner_tid_hash_, new_buckets, ub>>
  /\ Ghosts

\* new_capacity = std::max(kMinBuckets, NormalizeCapacity(new_capacity));
Normalized(c) == Max(kMinBuckets, NormalizeCapacity(c))

\* if (new_capacity == buckets_.size()) return;
St_ResizeCheck(t) ==
  /\ variant = "striped"
  /\ th[t].pc = "r_chk"
  /\ LET nc == Normalized(th[t].new_capacity) IN
       IF nc = B
       THEN /\ resize_mutex_' = 0
            /\ th' = [th EXCEPT ![t].pc = "done", ![t].new_capacity = nc]
       ELSE /\ th' = [th EXCEPT ![t].pc = "r_acq", ![t].new_capacity = nc,
                                ![t].ri = 0]
            /\ UNCHANGED resize_mutex_
  /\ UNCHANGED <<buckets_, size_, lockArrs, alive, locks_, version_, resizing_,
                 owner_tid_hash_, new_buckets, ub>>
  /\ Ghosts

\* for (auto& lock : locks_) lock.lock();   one mutex per step
St_ResizeAcquire(t) ==
  /\ variant = "striped"
  /\ th[t].pc = "r_acq"
  /\ Holder(1, th[t].ri) = 0
  /\ Lock(1, th[t].ri, t)
  /\ th' = [th EXCEPT ![t].ri = @ + 1,
                      ![t].pc = IF th[t].ri + 1 = S THEN "r_swap" ELSE "r_acq"]
  /\ UNCHANGED <<buckets_, size_, alive, locks_, version_, resizing_,
                 owner_tid_hash_, resize_mutex_, new_buckets, ub>>
  /\ Ghosts

\* St_ResizeSwap that also replaces the stripe locks by one lock per bucket
St_ResizeSwapLocks(t) ==
  /\ variant = "striped"
  /\ th[t].pc = "r_swap"
  /\ buckets_' = Rehash(buckets_, th[t].new_capacity)
  /\ lockArrs' = [lockArrs EXCEPT ![1] = [k \in 1..th[t].new_capacity |-> t]]
  /\ th' = [th EXCEPT ![t].pc = "r_unl"]
  /\ UNCHANGED <<size_, alive, locks_, version_, resizing_,
                 owner_tid_hash_, resize_mutex_, new_buckets, ub>>
  /\ Ghosts

\* the rehash into new_buckets and buckets_.swap(new_buckets), all stripes held
St_ResizeSwap(t) ==
  /\ variant = "striped"
  /\ th[t].pc = "r_swap"
  /\ buckets_' = Rehash(buckets_, th[t].new_capacity)
  /\ th' = [th EXCEPT ![t].pc = "r_unl"]
  /\ UNCHANGED <<size_, lockArrs, alive, locks_, version_, resizing_,
                 owner_tid_hash_, resize_mutex_, new_buckets, ub>>
  /\ Ghosts

\* for (auto& lock : locks_) lock.unlock(); and the release of resize_lock
St_ResizeRelease(t) ==
  /\ variant = "striped"
  /\ th[t].pc = "r_unl"
  /\ lockArrs' = [lockArrs EXCEPT ![1] = FreeLocks(S)]
  /\ resize_mutex_' = 0
  /\ th' = [th EXCEPT ![t].pc = "done"]
  /\ UNCHANGED <<buckets_, size_, alive, locks_, version_, resizing_,
                 owner_tid_hash_, new_buckets, ub>>
  /\ Ghosts

StripedStep(t) ==
  \/ St_Cap(t) \/ St_Index(t) \/ St_Lock(t) \/ St_Check(t) \/ St_Bucket(t)
  \/ St_LfSize(t) \/ St_LfCap(t) \/ St_Min(t) \/ St_Arg(t) \/ Rs_Lock(t)
  \/ St_ResizeCheck(t) \/ St_ResizeAcquire(t) \/ St_ResizeSwap(t)
  \/ St_ResizeRelease(t) \/ Size_Load(t)

Invoke(t) == InvokeHot(t) \/ InvokeNext(t)

NextStriped == \E t \in Threads : Invoke(t) \/ Return(t) \/ StripedStep(t)

InitStriped == InitOf({"striped"}, {8}, {7}, {NThreads}, {2})

SpecStriped == InitStriped /\ [][NextStriped]_vars

\* --------------------------------------------------------------- Refinable
\* Steps Rf_* are common to the two drafts, Ra_* belong to the draft whose
\* Resize holds all old locks, Ro_* to the draft that migrates bucket by bucket.

\* the threads that reference a mutex of lock array g: about to lock it,
\* blocked on it, or holding it
Users(g) ==
  {u \in Threads : th[u].lk[1] = g /\ th[u].pc \in {"f_lock", "f_chk", "f_chk2", "f_cs"}}

\* WaitIfResizingByOther(): leaves the loop when no resize is announced
Rf_Wait(t) ==
  /\ Refinable
  /\ th[t].pc = "f_wait"
  /\ ~IsResizingByOther(t)
  /\ th' = [th EXCEPT ![t].pc = "f_ver"]
  /\ Local

\* size_t ver_before = version_.load(acquire);
Rf_Version(t) ==
  /\ Refinable
  /\ th[t].pc = "f_ver"
  /\ th' = [th EXCEPT ![t].ver_before = version_,
                      ![t].pc = IF variant = "refall" /\ th[t].op # "Add"
                                THEN "f_idx" ELSE "f_cap"]
  /\ Local

\* size_t cap = buckets_.size();  (one-at-a-time draft: and i = hasher_(elem) % cap)
Rf_Cap(t) ==
  /\ Refinable
  /\ th[t].pc = "f_cap"
  /\ th' = IF variant = "refone"
           THEN [th EXCEPT ![t].cap = B, ![t].i = Hash(th[t].elem) % B,
                           ![t].pc = "f_ref"]
           ELSE [th EXCEPT ![t].cap = B, ![t].pc = "f_idx"]
  /\ Local

\* all-locks draft: size_t i = Index(elem), a read of buckets_.size() of its own
Ra_Index(t) ==
  /\ variant = "refall"
  /\ th[t].pc = "f_idx"
  /\ th' = [th EXCEPT ![t].i = Hash(th[t].elem) % B, ![t].pc = "f_ref"]
  /\ Local

\* locks_[i]: the mutex the thread is going to lock
Rf_Ref(t) ==
  /\ Refinable
  /\ th[t].pc = "f_ref"
  /\ IF th[t].i >= Len(lockArrs[locks_])
     THEN /\ th' = [th EXCEPT ![t].pc = "undef"]
          /\ SetUb("oob")
     ELSE /\ th' = [th EXCEPT ![t].pc = "f_lock", ![t].lk = <<locks_, th[t].i>>]
          /\ UNCHANGED ub
  /\ UNCHANGED <<buckets_, size_, lockArrs, alive, locks_, version_, resizing_,
                 owner_tid_hash_, resize_mutex_, new_buckets>>
  /\ Ghosts

\* std::unique_lock<std::mutex> bucket_lk(locks_[i]).  Locking a mutex of a
\* destroyed array is undefined: the call returns or it never does.
Rf_Lock(t) ==
  /\ Refinable
  /\ th[t].pc = "f_lock"
  /\ LET g == th[t].lk[1]
         k == th[t].lk[2]
     IN IF alive[g]
        THEN /\ Holder(g, k) = 0
             /\ Lock(g, k, t)
             /\ th' = [th EXCEPT ![t].pc = "f_chk"]
             /\ UNCHANGED ub
        ELSE /\ SetUb("dangling")
             /\ \/ /\ Lock(g, k, t)
                   /\ th' = [th EXCEPT ![t].pc = "f_chk"]
                \/ /\ th' = [th EXCEPT ![t].pc = "hung"]
                   /\ UNCHANGED lockArrs
  /\ UNCHANGED <<buckets_, size_, alive, locks_, version_, resizing_,
                 owner_tid_hash_, resize_mutex_, new_buckets>>
  /\ Ghosts

\* the retry: bucket_lk is released by `continue`
Retry(t) ==
  /\ Unlock(th[t].lk[1], th[t].lk[2])
  /\ th' = [th EXCEPT ![t].pc = "f_wait", ![t].lk = <<0, 0>>]

\* if (version_.load(acquire) != ver_before) continue;
\* in the one-at-a-time draft the first operand of the || only
Rf_CheckVersion(t) ==
  /\ Refinable
  /\ th[t].pc = "f_chk"
  /\ IF version_ # th[t].ver_before
     THEN Retry(t)
     ELSE /\ th' = [th EXCEPT ![t].pc = IF variant = "refone" THEN "f_chk2"
                                        ELSE "f_cs"]
          /\ UNCHANGED lockArrs
  /\ UNCHANGED <<buckets_, size_, alive, locks_, version_, resizing_,
                 owner_tid_hash_, resize_mutex_, new_buckets, ub>>
  /\ Ghosts

\* one-at-a-time draft:  || IsResizingByOther()) continue;
Ro_CheckResizing(t) ==
  /\ variant = "refone"
  /\ th[t].pc = "f_chk2"
  /\ IF IsResizingByOther(t)
     THEN Retry(t)
     ELSE /\ th' = [th EXCEPT ![t].pc = "f_cs"]
          /\ UNCHANGED lockArrs
  /\ UNCHANGED <<buckets_, size_, alive, locks_, version_, resizing_,
                 owner_tid_hash_, resize_mutex_, new_buckets, ub>>
  /\ Ghosts

\* where a call goes after its bucket work changed the set
AfterWork(o) == IF variant = "refall" /\ o = "Remove" THEN "done" ELSE "f_lf1"

\* the work on buckets_[i], used_cap = cap, and the release of bucket_lk
Rf_Bucket(t) ==
  /\ Refinable
  /\ th[t].pc = "f_cs"
  /\ IF th[t].i >= B
     THEN /\ th' = [th EXCEPT ![t].pc = "undef"]
          /\ SetUb("oob")
          /\ UNCHANGED <<buckets_, size_, lockArrs>>
     ELSE LET w == BucketWork(buckets_, th[t].i, th[t].op, th[t].elem) IN
          /\ buckets_' = w.b
          /\ size_' = size_ + w.d
          /\ Unlock(th[t].lk[1], th[t].lk[2])
          /\ th' = [th EXCEPT ![t].pc = IF w.d = 0 THEN "done"
                                        ELSE AfterWork(th[t].op),
                              ![t].used_cap = IF w.d = 0 THEN 0 ELSE th[t].cap,
                              ![t].ret = w.r, ![t].lk = <<0, 0>>]
          /\ UNCHANGED ub
  /\ UNCHANGED <<alive, locks_, version_, resizing_, owner_tid_hash_,
                 resize_mutex_, new_buckets>>
  /\ Ghosts

\* double lf = size_.load(relaxed) / used_cap;
Rf_LfSize(t) ==
  /\ Refinable
  /\ th[t].pc = "f_lf1"
  /\ th' = [th EXCEPT ![t].pc = "f_lf2", ![t].sz = size_]
  /\ Local

\* if (!IsResizingByOther() && lf > kMaxLoadFactor) Resize(used_cap * 2);
\* if (!IsResizingByOther() && lf < kMinLoadFactor)
\*   Resize(std::max(kMinBuckets, used_cap / 2));
Rf_Trigger(t) ==
  /\ Refinable
  /\ th[t].pc = "f_lf2"
  /\ LET c == th[t].used_cap
         go == /\ ~IsResizingByOther(t)
               /\ IF th[t].op = "Add" THEN GrowNeeded(th[t].sz, c)
                  ELSE ShrinkNeeded(th[t].sz, c)
     IN th' = [th EXCEPT ![t].pc = IF go THEN "r_lock" ELSE "done",
                         ![t].new_capacity =
                           IF ~go THEN 0
                           ELSE IF th[t].op = "Add" THEN c * 2
                           ELSE Max(kMinBuckets, c \div 2)]
  /\ Local

\* Resize up to resizing_.store(true): the early return, or the
\* announcement and the allocation of new_buckets
Rf_ResizeBegin(t) ==
  /\ Refinable
  /\ th[t].pc = "r_chk"
  /\ LET nc == Normalized(th[t].new_capacity) IN
       IF nc = B
       THEN /\ resize_mutex_' = 0
            /\ th' = [th EXCEPT ![t].pc = "done", ![t].new_capacity = nc]
            /\ UNCHANGED <<owner_tid_hash_, resizing_, new_buckets>>
       ELSE /\ owner_tid_hash_' = t
            /\ resizing_' = TRUE
            /\ new_buckets' = [k \in 1..nc |-> <<>>]
            /\ th' = [th EXCEPT ![t].pc = IF variant = "refone" THEN "r_mlock"
                                          ELSE "r_acq",
                                ![t].new_capacity = nc, ![t].ri = 0]
            /\ UNCHANGED resize_mutex_
  /\ UNCHANGED <<buckets_, size_, lockArrs, alive, locks_, version_, ub>>
  /\ Ghosts

\* one-at-a-time draft: std::unique_lock<std::mutex> lk(locks_[i]);
Ro_MigrateLock(t) ==
  /\ variant = "refone"
  /\ th[t].pc = "r_mlock"
  /\ Holder(locks_, th[t].ri) = 0
  /\ Lock(locks_, th[t].ri, t)
  /\ th' = [th EXCEPT ![t].pc = "r_mig"]
  /\ UNCHANGED <<buckets_, size_, alive, locks_, version_, resizing_,
                 owner_tid_hash_, resize_mutex_, new_buckets, ub>>
  /\ Ghosts

\* one-at-a-time draft: move bucket i, clear it, release lk
Ro_Migrate(t) ==
  /\ variant = "refone"
  /\ th[t].pc = "r_mig"
  /\ new_buckets' = MoveBucket(new_buckets, buckets_[th[t].ri + 1],
                               th[t].new_capacity)
  /\ buckets_' = [buckets_ EXCEPT ![th[t].ri + 1] = <<>>]
  /\ Unlock(locks_, th[t].ri)
  /\ th' = [th EXCEPT ![t].ri = @ + 1,
                      ![t].pc = IF th[t].ri + 1 = Len(lockArrs[locks_])
                                THEN "r_swapb" ELSE "r_mlock"]
  /\ UNCHANGED <<size_, alive, locks_, version_, resizing_, owner_tid_hash_,
                 resize_mutex_, ub>>
  /\ Ghosts

\* all-locks draft: all_locks.emplace_back(locks_[i]);  one mutex per step
Ra_Acquire(t) ==
  /\ variant = "refall"
  /\ th[t].pc = "r_acq"
  /\ Holder(locks_, th[t].ri) = 0
  /\ Lock(locks_, th[t].ri, t)
  /\ th' = [th EXCEPT ![t].ri = IF th[t].ri + 1 = Len(lockArrs[locks_]) THEN 0
                                ELSE @ + 1,
                      ![t].pc = IF th[t].ri + 1 = Len(lockArrs[locks_])
                                THEN "r_mig" ELSE "r_acq"]
  /\ UNCHANGED <<buckets_, size_, alive, locks_, version_, resizing_,
                 owner_tid_hash_, resize_mutex_, new_buckets, ub>>
  /\ Ghosts

\* all-locks draft: move bucket i and clear it
Ra_Migrate(t) ==
  /\ variant = "refall"
  /\ th[t].pc = "r_mig"
  /\ new_buckets' = MoveBucket(new_buckets, buckets_[th[t].ri + 1],
                               th[t].new_capacity)
  /\ buckets_' = [buckets_ EXCEPT ![th[t].ri + 1] = <<>>]
  /\ th' = [th EXCEPT ![t].ri = @ + 1,
                      ![t].pc = IF th[t].ri + 1 = B THEN "r_swapb" ELSE "r_mig"]
  /\ UNCHANGED <<size_, lockArrs, alive, locks_, version_, resizing_,
                 owner_tid_hash_, resize_mutex_, ub>>
  /\ Ghosts

\* buckets_.swap(new_buckets);
Rf_SwapBuckets(t) ==
  /\ Refinable
  /\ th[t].pc = "r_swapb"
  /\ buckets_' = new_buckets
  /\ new_buckets' = buckets_
  /\ th' = [th EXCEPT ![t].pc = "r_swapl"]
  /\ UNCHANGED <<size_, lockArrs, alive, locks_, version_, resizing_,
                 owner_tid_hash_, resize_mutex_, ub>>
  /\ Ghosts

\* Rf_SwapLocks with the fresh array sized like the old one:
\* std::vector<std::mutex> new_locks(locks_.size())
Rf_SwapLocksOldSize(t) ==
  /\ Refinable
  /\ th[t].pc = "r_swapl"
  /\ lockArrs' = Append(lockArrs, FreeLocks(Len(lockArrs[locks_])))
  /\ alive' = Append(alive, TRUE)
  /\ locks_' = Len(lockArrs) + 1
  /\ th' = [th EXCEPT ![t].pc = "r_bump", ![t].new_locks = locks_]
  /\ UNCHANGED <<buckets_, size_, version_, resizing_, owner_tid_hash_,
                 resize_mutex_, new_buckets, ub>>
  /\ Ghosts

\* locks_.swap(new_locks): locks_ is the fresh array, new_locks the old one
Rf_SwapLocks(t) ==
  /\ Refinable
  /\ th[t].pc = "r_swapl"
  /\ lockArrs' = Append(lockArrs, FreeLocks(th[t].new_capacity))
  /\ alive' = Append(alive, TRUE)
  /\ locks_' = Len(lockArrs) + 1
  /\ th' = [th EXCEPT ![t].pc = "r_bump", ![t].new_locks = locks_]
  /\ UNCHANGED <<buckets_, size_, version_, resizing_, owner_tid_hash_,
                 resize_mutex_, new_buckets, ub>>
  /\ Ghosts

\* Rf_Bump without the increment (a Resize that forgets version_.fetch_add)
Rf_BumpSkipped(t) ==
  /\ Refinable
  /\ th[t].pc = "r_bump"
  /\ th' = [th EXCEPT ![t].pc = IF variant = "refall" THEN "r_unl" ELSE "r_clr1"]
  /\ UNCHANGED <<buckets_, size_, lockArrs, alive, locks_, version_, resizing_,
                 owner_tid_hash_, resize_mutex_, new_buckets, ub>>
  /\ Ghosts

\* version_.fetch_add(1, acq_rel);
Rf_Bump(t) ==
  /\ Refinable
  /\ th[t].pc = "r_bump"
  /\ version_' = version_ + 1
  /\ th' = [th EXCEPT ![t].pc = IF variant = "refall" THEN "r_unl" ELSE "r_clr1"]
  /\ UNCHANGED <<buckets_, size_, lockArrs, alive, locks_, resizing_,
                 owner_tid_hash_, resize_mutex_, new_buckets, ub>>
  /\ Ghosts

\* all-locks draft: for (auto& lk : all_locks) lk.unlock();
Ra_Release(t) ==
  /\ variant = "refall"
  /\ th[t].pc = "r_unl"
  /\ lockArrs' = [lockArrs EXCEPT ![th[t].new_locks] =
                    [k \in 1..Len(@) |-> IF @[k] = t THEN 0 ELSE @[k]]]
  /\ th' = [th EXCEPT ![t].pc = "r_clr1"]
  /\ UNCHANGED <<buckets_, size_, alive, locks_, version_, resizing_,
                 owner_tid_hash_, resize_mutex_, new_buckets, ub>>
  /\ Ghosts

\* resizing_.store(false, release);
Rf_ClearResizing(t) ==
  /\ Refinable
  /\ th[t].pc = "r_clr1"
  /\ resizing_' = FALSE
  /\ th' = [th EXCEPT ![t].pc = "r_clr2"]
  /\ UNCHANGED <<buckets_, size_, lockArrs, alive, locks_, version_,
                 owner_tid_hash_, resize_mutex_, new_buckets, ub>>
  /\ Ghosts

\* owner_tid_hash_.store(0, release);
Rf_ClearOwner(t) ==
  /\ Refinable
  /\ th[t].pc = "r_clr2"
  /\ owner_tid_hash_' = 0
  /\ th' = [th EXCEPT ![t].pc = "r_end"]
  /\ UNCHANGED <<buckets_, size_, lockArrs, alive, locks_, version_, resizing_,
                 resize_mutex_, new_buckets, ub>>
  /\ Ghosts

\* what becomes of the old lock array when Resize returns: the all-locks
\* draft moves it into old_lock_arrays_, the other draft destroys it
KeptAlive == variant = "refall"

\* the end of Resize: the locals go out of scope, resize_mutex_ is released
Rf_ResizeEnd(t) ==
  /\ Refinable
  /\ th[t].pc = "r_end"
  /\ alive' = [alive EXCEPT ![th[t].new_locks] = KeptAlive]
  /\ IF ~KeptAlive /\ Users(th[t].new_locks) # {}
     THEN SetUb("dangling") ELSE UNCHANGED ub
  /\ new_buckets' = <<>>
  /\ resize_mutex_' = 0
  /\ th' = [th EXCEPT ![t].pc = "done"]
  /\ UNCHANGED <<buckets_, size_, lockArrs, locks_, version_, resizing_,
                 owner_tid_hash_>>
  /\ Ghosts

RefCommonStep(t) ==
  \/ Rf_Wait(t) \/ Rf_Version(t) \/ Rf_Cap(t) \/ Rf_Ref(t) \/ Rf_Lock(t)
  \/ Rf_CheckVersion(t) \/ Rf_Bucket(t) \/ Rf_LfSize(t) \/ Rf_Trigger(t)
  \/ Rs_Lock(t) \/ Rf_ResizeBegin(t) \/ Rf_SwapBuckets(t) \/ Rf_SwapLocks(t)
  \/ Rf_Bump(t) \/ Rf_ClearResizing(t) \/ Rf_ClearOwner(t) \/ Rf_ResizeEnd(t)
  \/ Size_Load(t)

RefAllStep(t) ==
  RefCommonStep(t) \/ Ra_Index(t) \/ Ra_Acquire(t) \/ Ra_Migrate(t) \/ Ra_Release(t)

RefOneStep(t) ==
  RefCommonStep(t) \/ Ro_CheckResizing(t) \/ Ro_MigrateLock(t) \/ Ro_Migrate(t)

NextRefAll == \E t \in Threads : Invoke(t) \/ Return(t) \/ RefAllStep(t)
NextRefOne == \E t \in Threads : Invoke(t) \/ Return(t) \/ RefOneStep(t)
NextSeq == \E t \in Threads : Invoke(t) \/ Return(t) \/ Seq_Call(t)
NextCoarse == \E t \in Threads : Invoke(t) \/ Return(t) \/ Cg_Lock(t) \/ Cg_Call(t)

InitRefAll == InitOf({"refall"}, {4}, {16}, {NThreads}, {0})
InitRefOne == InitOf({"refone"}, {6}, {6}, {NThreads}, {0})
InitSeq == InitOf({"seq"}, {0}, {0}, {1}, {0})
InitCoarse == InitOf({"coarse"}, {0}, {0}, {1, NThreads}, {0})

SpecRefAll == InitRefAll /\ [][NextRefAll]_vars
SpecRefOne == InitRefOne /\ [][NextRefOne]_vars
SpecSeq == InitSeq /\ [][NextSeq]_vars
SpecCoarse == InitCoarse /\ [][NextCoarse]_vars

\* ---------------------------------------------------------------------------
\* Properties
\* ---------------------------------------------------------------------------

\* Every call has returned: no thread is inside Add, Remove, Contains, Size or
\* a Resize one of them issued.
Quiescent == \A t \in Threads : th[t].pc = "idle"

\* Number of positions of the bucket array that hold the value v.
Occ(v) ==
  Cardinality({p \in (1..B) \X (1..(MaxKey + 2)) :
                 p[2] <= Len(buckets_[p[1]]) /\ buckets_[p[1]][p[2]] = v})

\* One step of thread t inside a call it has begun, whatever the variant.
ThreadStep(t) ==
  \/ Return(t) \/ Seq_Call(t) \/ Cg_Lock(t) \/ Cg_Call(t)
  \/ StripedStep(t) \/ RefAllStep(t) \/ RefOneStep(t)

\* a step of either draft of the Refinable set
RefinableStep(t) ==
  \/ RefCommonStep(t)
  \/ Ra_Index(t) \/ Ra_Acquire(t) \/ Ra_Migrate(t) \/ Ra_Release(t)
  \/ Ro_CheckResizing(t) \/ Ro_MigrateLock(t) \/ Ro_Migrate(t)

\* every class at once
InitAll == InitSeq \/ InitCoarse \/ InitStriped \/ InitRefAll \/ InitRefOne
NextAll ==
  \E t \in Threads :
    \/ Invoke(t) \/ Return(t) \/ Seq_Call(t) \/ Cg_Lock(t) \/ Cg_Call(t)
    \/ StripedStep(t) \/ RefinableStep(t)
SpecAll == InitAll /\ [][NextAll]_vars

\* both drafts of the Refinable set
InitRefinable == InitRefAll \/ InitRefOne
NextRefinable == \E t \in Threads : Invoke(t) \/ Return(t) \/ RefinableStep(t)
SpecRefinable == InitRefinable /\ [][NextRefinable]_vars

\* the Striped set built with several stripe counts: a single caller with
\* stripes = 0 (64 locks) or 3, and the two-thread run of InitStriped
InitStripes == InitStriped \/ InitOf({"striped"}, {8}, {7}, {1}, {0, 3})
SpecStripes == InitStripes /\ [][NextStriped]_vars

\* C1: with a single caller thread every call returns what an abstract set
\* returns (the set of abstract histories that explain the returns so far is
\* never empty) and no call reaches an undefined step such as an index
\* computed modulo a bucket count of 0.
C1_SingleThreadRefinement == nthr = 1 => (lin # {} /\ ub = "none")

\* C2: the bucket count B is at least kMinBuckets in every reachable state,
\* including after the Removes that shrink the table.
C2_MinBuckets == B >= kMinBuckets

\* C3: Striped set: the return values of all calls made so far are explained
\* by some sequential order of the calls that respects program order and
\* real-time precedence (the set of abstract configurations that explain the
\* history is never empty).
C3_StripedLinearizable == variant = "striped" => lin # {}

\* C4: Refinable set: a Contains(v) invoked after an Add(v) returned true,
\* with no Remove(v) in between or in flight, returns true.
C4_AddThenContains ==
  \A t \in Threads :
    (th[t].pc = "done" /\ th[t].op = "Contains" /\ th[t].must) => th[t].ret

\* C5: in every quiescent state no value occurs twice in the table, neither
\* twice in one bucket nor in two different buckets.
C5_NoDuplicates == Quiescent => \A v \in 1..MaxKey : Occ(v) <= 1

\* C6: in every quiescent state every element v stored in bucket i satisfies
\* hash(v) mod B = i for the current bucket count B.
C6_BucketPlacement ==
  Quiescent =>
    \A k \in 1..B : \A j \in 1..Len(buckets_[k]) :
       Hash(buckets_[k][j]) % B = k - 1

\* C7: in every quiescent state the size counter equals the number of Adds that
\* returned true minus the number of Removes that returned true, and equals
\* the sum of the lengths of all bucket chains.
C7_SizeAccounting == Quiescent => (size_ = net /\ size_ = Count(buckets_))

\* C8: no lock array is destroyed while a thread holds one of its mutexes, has
\* taken a reference to one that it is about to lock, or has yet to release
\* one.
C8_LockArrayLifetime == \A g \in 1..Len(alive) : ~alive[g] => Users(g) = {}

\* C9: deadlock freedom: whenever some call is unfinished (and the process has
\* not crashed), some thread inside a call can take a step; never are all
\* unfinished threads blocked on a mutex or spinning at the wait gate.
C9_DeadlockFree ==
  (/\ \E t \in Threads : th[t].pc # "idle"
   /\ \A t \in Threads : th[t].pc # "undef")
    => \E t \in Threads : th[t].pc # "idle" /\ ENABLED ThreadStep(t)

\* C10: in every quiescent state the load factor is at most kMaxLoadFactor:
\* size <= 4 * B.
C10_QuiescentLoadBound == Quiescent => size_ <= kMaxLoadFactor * B

\* C11: Refinable set: the lock array and the bucket array have the same
\* length in every state in which no Resize is between its bucket-array swap
\* and its lock-array swap.
C11_LocksMatchBuckets ==
  Refinable =>
    ((\A t \in Threads : th[t].pc # "r_swapl") => Len(lockArrs[locks_]) = B)

\* a quiescent state after a shrink and a grow of the one-at-a-time draft
C11_Witness ==
  /\ variant = "refone" /\ Quiescent /\ version_ >= 2
  /\ Len(lockArrs[locks_]) = B /\ B = 2 * kMinBuckets

\* C12: Striped set: in every reachable state there is one array of stripe
\* locks and its length is the count chosen at construction, 64 when the
\* requested count is 0, whatever Add, Remove, Contains and Resize have done.
C12_StripeCountConstant ==
  variant = "striped" =>
    /\ Len(lockArrs) = 1 /\ locks_ = 1
    /\ Len(lockArrs[1]) = (IF stripes = 0 THEN DefaultStripes ELSE stripes)

\* a set built with stripes = 0 after a Remove has halved the bucket array
C12_Witness ==
  /\ variant = "striped" /\ stripes = 0 /\ Quiescent
  /\ Len(lockArrs[1]) = DefaultStripes /\ B = kMinBuckets

\* the positions of a thread inside Resize
ResizePcs ==
  {"r_lock", "r_chk", "r_acq", "r_swap", "r_unl", "r_mlock", "r_mig",
   "r_swapb", "r_swapl", "r_bump", "r_clr1", "r_clr2", "r_end"}

\* thread t takes the step (another thread's call only touches t's must)
StepOf(t) == [th[t] EXCEPT !.must = FALSE] # [th'[t] EXCEPT !.must = FALSE]

\* the result of an Add or Remove, once true, stays true until the return
RetKept(t) ==
  (th[t].op \in {"Add", "Remove"} /\ th'[t].op = th[t].op /\ th[t].ret)
    => th'[t].ret

\* C13: in every class, an Add or Remove that returns false changes nothing:
\* every step of a call whose result is (still) false leaves the buckets (so
\* the membership set and B), size and version unchanged and is outside
\* Resize; a result that became true stays true, so a call that returns
\* false has taken only such steps.
C13_FailedOpsChangeNothing ==
  [][\A t \in Threads :
       /\ RetKept(t)
       /\ (StepOf(t) /\ th'[t].op \in {"Add", "Remove"} /\ ~th'[t].ret) =>
            /\ UNCHANGED <<buckets_, size_, version_, resizing_,
                           owner_tid_hash_, locks_, resize_mutex_>>
            /\ th'[t].pc \notin ResizePcs]_vars

\* an Add that found its element and a Remove that did not, both about to
\* return false
C13_Witness ==
  \E t, u \in Threads :
    /\ th[t].pc = "done" /\ th[t].op = "Add" /\ ~th[t].ret
    /\ th[u].pc = "done" /\ th[u].op = "Remove" /\ ~th[u].ret

\* the lock arrays are the same objects of the same lengths
SameLockArrays ==
  /\ locks_' = locks_
  /\ Len(lockArrs') = Len(lockArrs)
  /\ \A g \in 1..Len(lockArrs) : Len(lockArrs'[g]) = Len(lockArrs[g])
  /\ alive' = alive

Concurrent == variant \in {"striped", "refall", "refone"}

\* the Add / Remove calls that have been invoked and have not returned
AddsInProgress == {t \in Threads : th[t].op = "Add" /\ th[t].pc # "idle"}
RemovesInProgress == {t \in Threads : th[t].op = "Remove" /\ th[t].pc # "idle"}

C16_StripedProtocol ==
  \A t \in Threads :
    (variant = "striped" /\ th[t].pc = "s_cs") =>
      /\ th[t].cap = B
      /\ th[t].i = Hash(th[t].elem) % B
      /\ Holder(1, StripeOfBucket(th[t].i)) = t

\* a Resize has acquired the old lock of bucket i (the all-locks draft holds
\* it, the one-at-a-time draft may have released it after migrating the
\* bucket) and has not bumped the version yet
ResizeUnbumped(i) ==
  \E u \in Threads :
    \/ th[u].pc \in {"r_swapb", "r_swapl", "r_bump"}
    \/ th[u].pc = "r_mig" /\ (variant = "refall" \/ th[u].ri >= i)
    \/ th[u].pc \in {"r_acq", "r_mlock"} /\ th[u].ri > i

\* C17: Refinable set: whenever an Add/Remove/Contains has passed its
\* post-lock re-check and is about to read or mutate buckets_[i], the mutex
\* it holds is element i of the current lock array, i is hash(elem) mod B for
\* the current bucket array, and no Resize is between acquiring the old lock
\* of that bucket and bumping the version.
C17_RefinableProtocol ==
  \A t \in Threads :
    (Refinable /\ th[t].pc = "f_cs") =>
      /\ th[t].lk = <<locks_, th[t].i>>
      /\ Holder(locks_, th[t].i) = t
      /\ th[t].i = Hash(th[t].elem) % B
      /\ ~ResizeUnbumped(th[t].i)

\* a running Resize of the one-at-a-time draft has migrated and cleared
\* bucket i of the old array
Migrated(i) ==
  \E u \in Threads :
    \/ th[u].pc \in {"r_mlock", "r_mig"} /\ th[u].ri > i
    \/ th[u].pc = "r_swapb"

\* C18: one-at-a-time draft: a Resize running beside normal operations loses
\* and duplicates nothing: no Add or Remove that passed its re-check mutates
\* a bucket of the old array after Resize has migrated and cleared it, so the
\* array that buckets_.swap discards is empty, and the swap leaves the stored
\* elements and size_ as they were.
C18_MigrationKeepsElements ==
  [][variant = "refone" =>
       /\ \A t \in Threads :
            (th[t].pc = "f_cs" /\ th'[t].pc # "f_cs" /\ buckets_' # buckets_)
              => ~Migrated(th[t].i)
       /\ \A u \in Threads :
            (th[u].pc = "r_swapb" /\ th'[u].pc = "r_swapl") =>
              /\ Count(buckets_) = 0
              /\ Count(buckets_') = Count(new_buckets)
              /\ size_' = size_]_vars

\* the threads inside Resize past the acquisition of resize_mutex_
Resizers == {t \in Threads : th[t].pc \in ResizePcs \ {"r_lock"}}

C20_VersionStamp ==
  /\ [](Refinable =>
         version_ = Len(lockArrs) - 1
                    - Cardinality({t \in Threads : th[t].pc = "r_bump"}))
  /\ [][(Refinable /\ version_' # version_) =>
          /\ version_' = version_ + 1
          /\ \E t \in Threads :
               /\ th[t].pc = "r_bump" /\ th'[t].pc # "r_bump"
               /\ B = th[t].new_capacity
               /\ Len(lockArrs[locks_]) = th[t].new_capacity
               /\ locks_ # th[t].new_locks
               /\ resizing_ /\ resizing_']_vars

\* after one replacing Resize, a second Resize call is about to return early
\* (its normalized target equals B) with the version still 1
C20_Witness ==
  /\ Refinable /\ version_ = 1
  /\ \E t \in Threads :
       /\ th[t].pc = "done" /\ th[t].op \in {"Add", "Remove"}
       /\ th[t].new_capacity = B /\ th[t].new_locks = 0

\* the bucket count an Add or Remove has recorded for its critical section:
\* cap, validated under the stripe lock (Striped), used_cap (Refinable)
OperatedCap(t) == IF variant = "striped" THEN th[t].cap ELSE th[t].used_cap

\* C21: Striped and Refinable: after a successful Add or Remove the bucket
\* count recorded for the critical section is the one the bucket work ran
\* under, and a Resize is requested exactly from it: the load factor that
\* crossed the threshold is size / that count and the requested capacity is
\* twice, respectively half, that count, not a later read of the live B; so
\* a Resize asked for by an Add installs at most twice, one asked for by a
\* Remove at least half, the bucket count its caller operated under.
C21_OperatedCapacity ==
  [][\A t \in Threads :
       /\ (Concurrent /\ th[t].pc \in {"s_cs", "f_cs"}
             /\ th'[t].pc \in {"s_lf1", "f_lf1"}) => OperatedCap(t)' = B
       /\ (Concurrent /\ th[t].pc # "r_lock" /\ th'[t].pc = "r_lock") =>
            IF th[t].op = "Add"
            THEN /\ GrowNeeded(th[t].sz, OperatedCap(t))
                 /\ th'[t].new_capacity = 2 * OperatedCap(t)
            ELSE /\ ShrinkNeeded(th[t].sz, OperatedCap(t))
                 /\ Normalized(th'[t].new_capacity) =
                      Normalized(OperatedCap(t) \div 2)
       /\ (Concurrent /\ th[t].pc \in {"r_swap", "r_swapb"}
             /\ Len(buckets_') # B) =>
            IF th[t].op = "Add" THEN Len(buckets_') <= 2 * OperatedCap(t)
            ELSE 2 * Len(buckets_') >= OperatedCap(t)]_vars

\* the stripe / bucket mutexes thread t holds, as <<lock array, index>>
Held(t) ==
  {p \in UNION {{<<g, k>> : k \in 1..Len(lockArrs[g])} : g \in 1..Len(lockArrs)} :
     lockArrs[p[1]][p[2]] = t}

\* thread t acquires mutex k of lock array g in this step
Acquires(t, g, k) == lockArrs[g][k] # t /\ lockArrs'[g][k] = t

\* C22: Striped and Refinable: a thread holds no stripe/bucket mutex when it
\* waits for or acquires the resize mutex; outside Resize a thread holds at
\* most one stripe/bucket mutex; inside Resize the mutexes are acquired in
\* increasing index order.
C22_LockOrder ==
  /\ [](Concurrent =>
         \A t \in Threads :
           /\ th[t].pc \notin ResizePcs => Cardinality(Held(t)) <= 1
           /\ th[t].pc = "r_lock" => Held(t) = {})
  /\ [][Concurrent =>
          \A t \in Threads :
            /\ (resize_mutex_ # t /\ resize_mutex_' = t) => Held(t) = {}
            /\ \A g \in 1..Len(lockArrs) : \A k \in 1..Len(lockArrs[g]) :
                 (th[t].pc \in ResizePcs /\ Acquires(t, g, k)) =>
                   \A q \in Held(t) : q[1] = g /\ q[2] < k]_vars

\* a Resize has acquired two bucket mutexes and waits for the third, which a
\* normal operation holds
C22_Witness ==
  \E t, u \in Threads :
    /\ th[t].pc = "r_acq" /\ Cardinality(Held(t)) >= 2
    /\ th[u].pc = "f_cs" /\ Cardinality(Held(u)) = 1

\* the scheduler keeps running every thread that can take a step
Fairness == \A t \in Threads : WF_vars(ThreadStep(t))
FairStriped == SpecStriped /\ Fairness
FairRefAll == SpecRefAll /\ Fairness

\* the steps of a Refinable Resize from the store of resizing = true up to the
\* version bump; the step after the bump releases or clears
Unbumped == {"r_acq", "r_mlock", "r_mig", "r_swapb", "r_swapl", "r_bump"}

\* C23: Striped and Refinable, every thread weakly fair, finitely many calls:
\* every invoked call eventually returns, and every Refinable Resize that set
\* resizing eventually has bumped the version and cleared resizing and owner.
C23_Progress ==
  /\ \A t \in Threads : (th[t].pc # "idle") ~> (th[t].pc = "idle")
  /\ \A t \in Threads :
       (Refinable /\ th[t].pc \in Unbumped) ~> (th[t].pc \in {"r_unl", "r_clr1"})
  /\ (Refinable /\ resizing_) ~> (~resizing_ /\ owner_tid_hash_ = 0)

\* C24: Striped and the one-bucket-at-a-time Refinable draft: whenever a thread
\* evaluates locks_[i] or buckets_[i], i is smaller than the length that array
\* has at that moment, also after a concurrent shrinking Resize.
C24_IndexBounds ==
  [][(variant \in {"striped", "refone"}) =>
       \A t \in Threads :
         /\ (th[t].pc = "f_ref" /\ th'[t].pc # "f_ref") =>
              th[t].i < Len(lockArrs[locks_])
         /\ (th[t].pc = "s_lock" /\ th'[t].pc # "s_lock") =>
              StripeOfBucket(th[t].i) < Len(lockArrs[locks_])
         /\ (th[t].pc \in {"s_cs", "f_cs"} /\ th'[t].pc # th[t].pc) =>
              th[t].i < B]_vars

\* Remove of the latest key of the increasing sequence, all by the last thread
InvokeLast(t) ==
  /\ t = nthr
  /\ nextKey > 1
  /\ Call(t, "Remove", nextKey - 1)
  /\ nextKey' = nextKey - 1
  /\ UNCHANGED <<variant, nthr, stripes, buckets_, size_, lockArrs, alive, locks_, version_,
                 resizing_, owner_tid_hash_, resize_mutex_, new_buckets, nops,
                 ub, net>>

\* a Striped set built with 16 buckets and holding 1..6 that is emptied again
InitDrain == InitOf({"striped"}, {4 * kMinBuckets}, {6}, {NThreads}, {2})
NextDrain ==
  \E t \in Threads : InvokeHot(t) \/ InvokeLast(t) \/ StripedStep(t) \/ Return(t)
SpecDrain == InitDrain /\ [][NextDrain]_vars

\* C25: Striped and Refinable: a Resize called by an Add never makes B smaller
\* than it was when the Resize took the resize mutex, and a Resize called by a
\* Remove never makes it larger (B changes only at the swap of the holder of the
\* resize mutex, so B before the swap is B at the acquisition).
C25_ResizeDirection ==
  [][\A t \in Threads :
       (Concurrent /\ th[t].pc \in {"r_swap", "r_swapb"} /\ th'[t].pc # th[t].pc) =>
         /\ th[t].op = "Add" => Len(buckets_') >= B
         /\ th[t].op = "Remove" => Len(buckets_') <= B]_vars

====
